---- MODULE Spec2Model ----
(***************************************************************************)
(* Activity log store of polyclaw (src/lib/activity.py): ActivityLogger    *)
(* with its date-named JSONL partition files, log, get_activities and      *)
(* get_activity_stats.                                                     *)
(*                                                                         *)
(* Time is counted in ticks, TicksPerDay to the day.  The fixed-width date *)
(* and time of a timestamp is one digit (the day); the tick within the day *)
(* is its sub-second part, which is exactly zero at tick 0 of a day.  A    *)
(* timestamp string is a sequence of character codes, compared the way     *)
(* Python compares str.                                                    *)
(***************************************************************************)
EXTENDS Integers, Sequences, FiniteSets, TLC

\* ------------------------------------------------------------------ bounds
\* The process runs during days FirstDay..MaxDay; day 0 lies in the past.
FirstDay == 1
MaxDay == 2
\* The clock visits the fractions 0..MaxFrac of each second.
MaxFrac == 1
\* Calls of log in one run.
MaxLogs == 2

\* Ticks per day: the model's 24 * 60 * 60 (one decimal digit of fraction).
TicksPerDay == 10

Instants == {d * TicksPerDay + f : d \in FirstDay..MaxDay, f \in 0..MaxFrac}
\* Partition names (calendar dates).
Days == 0..MaxDay
\* Host time zones: local time = UTC + offset (in ticks); UTC, and a zone
\* half a day west of it.
TzOffsets == {0, 0 - (TicksPerDay \div 2)}

\* ------------------------------------------------------- character strings
CharDot == 46
CharZero == 48
CharZ == 90

RECURSIVE StrLess(_, _)
\* Python's str <: lexicographic by code point, a proper prefix is smaller.
StrLess(a, b) ==
    IF b = <<>> THEN FALSE
    ELSE IF a = <<>> THEN TRUE
    ELSE IF a[1] < b[1] THEN TRUE
    ELSE IF a[1] > b[1] THEN FALSE
    ELSE StrLess(Tail(a), Tail(b))

\* ------------------------------------------------------------ JSON values
\* A timestamp value as json.loads yields it: a str or a number.
JStr(s) == [t |-> "str", s |-> s, n |-> 0]
JNum(n) == [t |-> "num", s |-> <<>>, n |-> n]
\* Python's None, for an optional str argument.
PyNone == [t |-> "none", s |-> <<>>, n |-> 0]
\* None for the user / activity_type arguments and dict.get("user").
NoneStr == "<None>"
\* A JSON document that is not an object (42, [1], "x", null).
NonDict == [nondict |-> TRUE]

IsDict(v) == "nondict" \notin DOMAIN v

\* Python truthiness of an optional str / number.
Truthy(v) ==
    CASE v.t = "str" -> v.s # <<>>
      [] v.t = "num" -> v.n # 0
      [] OTHER -> FALSE

TruthyStr(u) == u # NoneStr /\ u # ""

\* x < y raises TypeError unless both are str or both are numbers.
Comparable(x, y) == x.t = y.t /\ x.t \in {"str", "num"}

PyLess(x, y) == IF x.t = "str" THEN StrLess(x.s, y.s) ELSE x.n < y.n

\* dict.get(key, default)
Get(a, key, default) == IF key \in DOMAIN a THEN a[key] ELSE default

\* -------------------------------------------------------------- the clock
UtcDay(t) == t \div TicksPerDay
Frac(t) == t % TicksPerDay

\* datetime.isoformat() + "Z": the fixed-width date and time, then the
\* fraction only when it is not zero, then "Z".
Ts(day, frac) ==
    <<CharZero + day>> \o
    (IF frac = 0 THEN <<>> ELSE <<CharDot, CharZero + frac>>) \o
    <<CharZ>>

isoformatZ(t) == Ts(UtcDay(t), Frac(t))

\* datetime.now().strftime('%Y-%m-%d'): the local calendar date.
strftime_now(t, off) == (t + off) \div TicksPerDay

\* ---------------------------------------------------------------- records
ACTIVITY_TYPES ==
    [login |-> "User logged in", logout |-> "User logged out",
     config_change |-> "Configuration changed",
     input_change |-> "Input value changed", save |-> "Data saved",
     load |-> "Data loaded", error |-> "Error occurred",
     warning |-> "Warning issued", info |-> "Informational event"]

\* Mutant: the tag is stored as its own description, the table is not read.
description_of_tag_only(activity_type) == activity_type

\* self.ACTIVITY_TYPES.get(activity_type, activity_type)
description_of(activity_type) ==
    Get(ACTIVITY_TYPES, activity_type, activity_type)

\* A details dict is a set of <<key, value>> pairs; NoneDict is None.
NoneDict == {<<"<None>">>}

\* "details or {}"
details_or_empty(details) == IF details = NoneDict \/ details = {} THEN {} ELSE details

activity_record(t, user, activity_type, details, source) ==
    [timestamp |-> JStr(isoformatZ(t)),
     user |-> user,
     activity |-> activity_type,
     description |-> description_of(activity_type),
     source |-> source,
     details |-> details_or_empty(details)]

\* ----------------------------------------------------- file contents (text)
\* A file is a sequence of tokens: the JSON text of one object, a JSON
\* document that is not an object, text that is not JSON, whitespace, "\n".
NL == [k |-> "nl"]
WS == [k |-> "ws"]
Garbage == [k |-> "garbage"]
Scalar == [k |-> "scalar"]
Obj(r) == [k |-> "obj", r |-> r]

\* A value of the details dict: a tuple or a list of numbers.
PyTuple(x) == [t |-> "tuple", v |-> x]
PyList(x) == [t |-> "list", v |-> x]

\* The JSON value of a Python value: a tuple is written as an array, which
\* json.loads reads as a list.
json_value(v) == IF v.t = "tuple" THEN PyList(v.v) ELSE v

\* The JSON object json.dumps writes for a record.
dumps(a) ==
    IF "details" \in DOMAIN a
    THEN [a EXCEPT !.details = {<<p[1], json_value(p[2])>> : p \in a.details}]
    ELSE a

\* json.dumps(activity) + "\n"
dumps_line(a) == <<Obj(dumps(a)), NL>>

RECURSIVE SplitLines(_, _, _)
\* "for line in f": the text cut after each "\n"; a last line without one
\* is still a line.
SplitLines(toks, cur, out) ==
    IF toks = <<>> THEN (IF cur = <<>> THEN out ELSE Append(out, cur))
    ELSE IF Head(toks) = NL THEN SplitLines(Tail(toks), <<>>, Append(out, cur))
    ELSE SplitLines(Tail(toks), Append(cur, Head(toks)), out)

Lines(toks) == SplitLines(toks, <<>>, <<>>)

RECURSIVE LStrip(_)
LStrip(line) ==
    IF line # <<>> /\ Head(line) = WS THEN LStrip(Tail(line)) ELSE line

RECURSIVE RStrip(_)
RStrip(line) ==
    IF line # <<>> /\ line[Len(line)] = WS
    THEN RStrip(SubSeq(line, 1, Len(line) - 1))
    ELSE line

\* str.strip()
strip(line) == RStrip(LStrip(line))

\* json.loads succeeds exactly on one whole JSON document.
IsJson(s) == Len(s) = 1 /\ s[1].k \in {"obj", "scalar"}

loads(s) == IF s[1].k = "obj" THEN s[1].r ELSE NonDict

\* ---------------------------------------------------------- get_activities
\* sorted(log_dir.glob("activities_*.jsonl"), reverse=True): the existing
\* partitions, newest name first, as the sequence of all their lines.
RECURSIVE LinesFrom(_, _, _)
LinesFrom(fs, ex, d) ==
    IF d < 0 THEN <<>>
    ELSE (IF d \in ex THEN Lines(fs[d]) ELSE <<>>) \o LinesFrom(fs, ex, d - 1)

AllLines(fs, ex) == LinesFrom(fs, ex, MaxDay)

timestamp_key(a) == Get(a, "timestamp", JStr(<<>>))

\* Mutant: the time range is exclusive (<= start_time, >= end_time skip).
apply_filters_exclusive(a, q) ==
    IF ~IsDict(a) THEN
        (IF TruthyStr(q.user) \/ TruthyStr(q.activity_type)
            \/ Truthy(q.start_time) \/ Truthy(q.end_time)
         THEN "raise" ELSE "keep")
    ELSE IF TruthyStr(q.user) /\ Get(a, "user", NoneStr) # q.user THEN "skip"
    ELSE IF TruthyStr(q.activity_type)
            /\ Get(a, "activity", NoneStr) # q.activity_type THEN "skip"
    ELSE IF Truthy(q.start_time) /\ ~Comparable(timestamp_key(a), q.start_time)
         THEN "raise"
    ELSE IF Truthy(q.start_time) /\ ~PyLess(q.start_time, timestamp_key(a))
         THEN "skip"
    ELSE IF Truthy(q.end_time) /\ ~Comparable(timestamp_key(a), q.end_time)
         THEN "raise"
    ELSE IF Truthy(q.end_time) /\ ~PyLess(timestamp_key(a), q.end_time)
         THEN "skip"
    ELSE "keep"

\* The filters of one parsed line: "keep", "skip" (continue) or "raise".
\* A value that is not a dict has no .get: the first filter that is truthy
\* raises AttributeError.  A timestamp that is not a str raises TypeError
\* when it is compared with start_time / end_time.
apply_filters(a, q) ==
    IF ~IsDict(a) THEN
        (IF TruthyStr(q.user) \/ TruthyStr(q.activity_type)
            \/ Truthy(q.start_time) \/ Truthy(q.end_time)
         THEN "raise" ELSE "keep")
    ELSE IF TruthyStr(q.user) /\ Get(a, "user", NoneStr) # q.user THEN "skip"
    ELSE IF TruthyStr(q.activity_type)
            /\ Get(a, "activity", NoneStr) # q.activity_type THEN "skip"
    ELSE IF Truthy(q.start_time) /\ ~Comparable(timestamp_key(a), q.start_time)
         THEN "raise"
    ELSE IF Truthy(q.start_time) /\ PyLess(timestamp_key(a), q.start_time)
         THEN "skip"
    ELSE IF Truthy(q.end_time) /\ ~Comparable(timestamp_key(a), q.end_time)
         THEN "raise"
    ELSE IF Truthy(q.end_time) /\ PyLess(q.end_time, timestamp_key(a))
         THEN "skip"
    ELSE "keep"

\* One line of a partition: blank and non-JSON lines are skipped.
line_outcome(line, q) ==
    LET s == strip(line) IN
    IF s = <<>> THEN "skip"
    ELSE IF ~IsJson(s) THEN "skip"
    ELSE apply_filters(loads(s), q)

RECURSIVE collect(_, _, _)
\* The read loop: the activities appended, or the exception that ends it.
collect(lines, q, acc) ==
    IF lines = <<>> THEN [ok |-> TRUE, val |-> acc]
    ELSE LET o == line_outcome(Head(lines), q) IN
         IF o = "raise" THEN [ok |-> FALSE, val |-> <<>>]
         ELSE IF o = "keep"
              THEN collect(Tail(lines), q, Append(acc, loads(strip(Head(lines)))))
              ELSE collect(Tail(lines), q, acc)

\* The key function runs on every element; comparing keys of two types
\* raises TypeError.
sort_raises(acts) ==
    \/ \E i \in 1..Len(acts) : ~IsDict(acts[i])
    \/ \E i, j \in 1..Len(acts) :
          i # j /\ ~Comparable(timestamp_key(acts[i]), timestamp_key(acts[j]))

RECURSIVE insert_desc(_, _)
\* x goes after every element whose key is not smaller than its own.
insert_desc(sorted, x) ==
    IF sorted = <<>> THEN <<x>>
    ELSE IF PyLess(timestamp_key(Head(sorted)), timestamp_key(x))
         THEN <<x>> \o sorted
         ELSE <<Head(sorted)>> \o insert_desc(Tail(sorted), x)

RECURSIVE sort_desc_from(_, _)
sort_desc_from(acts, sorted) ==
    IF acts = <<>> THEN sorted
    ELSE sort_desc_from(Tail(acts), insert_desc(sorted, Head(acts)))

\* Mutant: the records stay in the order they were read, partition by
\* partition.
sort_desc_as_read(acts) == acts

\* activities.sort(key=..., reverse=True): stable, newest first.
sort_desc(acts) == sort_desc_from(acts, <<>>)

Min(a, b) == IF a < b THEN a ELSE b
Max(a, b) == IF a > b THEN a ELSE b

\* A slice bound as Python clamps it for a list of length n.
slice_index(i, n) == IF i < 0 THEN Max(i + n, 0) ELSE Min(i, n)

\* seq[lo : hi]
py_slice(seq, lo, hi) ==
    LET a == slice_index(lo, Len(seq))
        b == slice_index(hi, Len(seq))
    IN IF a < b THEN SubSeq(seq, a + 1, b) ELSE <<>>

\* Mutant: the slice ends at limit, not at offset + limit.
paginate_end_at_limit(acts, q) == py_slice(acts, q.offset, q.limit)

\* activities[offset : offset + limit]
paginate(acts, q) == py_slice(acts, q.offset, q.offset + q.limit)

\* The read loop over the lines, then the sort and the slice.
activities_of(lines, q) ==
    LET c == collect(lines, q, <<>>) IN
    IF ~c.ok THEN c
    ELSE IF sort_raises(c.val) THEN [ok |-> FALSE, val |-> <<>>]
    ELSE [ok |-> TRUE, val |-> paginate(sort_desc(c.val), q)]

get_activities(fs, ex, q) == activities_of(AllLines(fs, ex), q)

RECURSIVE glob_from(_, _)
glob_from(ex, d) ==
    IF d < 0 THEN <<>>
    ELSE (IF d \in ex THEN <<d>> ELSE <<>>) \o glob_from(ex, d - 1)

\* Mutant: the newest partition is left out of the scan.
glob_sorted_without_newest(ex) ==
    IF glob_from(ex, MaxDay) = <<>> THEN <<>> ELSE Tail(glob_from(ex, MaxDay))

\* sorted(self.log_dir.glob("activities_*.jsonl"), reverse=True): the
\* partitions that exist at that moment, newest name first.
glob_sorted(ex) == glob_from(ex, MaxDay)

\* ------------------------------------------------------ get_activity_stats
StatsLimit == 10000
TopN == 10

IsDigit(c) == c >= CharZero /\ c <= CharZero + 9

\* datetime.fromisoformat(ts.replace("Z", "+00:00")) accepts the date and
\* time with or without a fraction.
fromiso_ok(s) ==
    \/ Len(s) = 2 /\ IsDigit(s[1]) /\ s[2] = CharZ
    \/ Len(s) = 4 /\ IsDigit(s[1]) /\ s[2] = CharDot /\ IsDigit(s[3])
       /\ s[4] = CharZ

\* ... .timestamp() of the aware datetime: the instant itself.
fromiso_timestamp(s) ==
    (s[1] - CharZero) * TicksPerDay + (IF Len(s) = 4 THEN s[3] - CharZero ELSE 0)

\* datetime.utcnow().timestamp(): the naive UTC wall time read as local time.
utcnow_timestamp(t, off) == t - off

stats_query ==
    [user |-> NoneStr, activity_type |-> NoneStr, start_time |-> PyNone,
     end_time |-> PyNone, limit |-> StatsLimit, offset |-> 0]

\* a["timestamp"].replace(...) and fromisoformat: KeyError, AttributeError
\* or ValueError on a record without a parsable str timestamp.
stats_ts_raises(a) ==
    \/ "timestamp" \notin DOMAIN a
    \/ a.timestamp.t # "str"
    \/ ~fromiso_ok(a.timestamp.s)

Count(seq, key, v) == Cardinality({i \in 1..Len(seq) : seq[i][key] = v})

FirstIndex(seq, key, v) ==
    CHOOSE i \in 1..Len(seq) :
        seq[i][key] = v /\ \A j \in 1..(i - 1) : seq[j][key] # v

Values(seq, key) == {seq[i][key] : i \in 1..Len(seq)}

\* Mutant: the first n values seen, whatever their counts.
most_common_first_seen(seq, key, n) ==
    LET vs == Values(seq, key)
        top == {v \in vs :
                  Cardinality({u \in vs :
                      FirstIndex(seq, key, u) < FirstIndex(seq, key, v)}) < n}
    IN [v \in top |-> Count(seq, key, v)]

\* Counter(...).most_common(n): by count, ties in first-seen order.
most_common(seq, key, n) ==
    LET vs == Values(seq, key)
        Before(u, v) ==
            \/ Count(seq, key, u) > Count(seq, key, v)
            \/ Count(seq, key, u) = Count(seq, key, v)
               /\ FirstIndex(seq, key, u) < FirstIndex(seq, key, v)
        top == {v \in vs : Cardinality({u \in vs : Before(u, v)}) < n}
    IN [v \in top |-> Count(seq, key, v)]

get_activity_stats(fs, ex, t, off, days) ==
    LET r == get_activities(fs, ex, stats_query)
        acts == r.val
        cutoff == utcnow_timestamp(t, off) - days * TicksPerDay
        recent == SelectSeq(acts,
                    LAMBDA a : fromiso_timestamp(a.timestamp.s) > cutoff)
    IN IF ~r.ok THEN [ok |-> FALSE]
       ELSE IF \E i \in 1..Len(acts) : stats_ts_raises(acts[i])
            THEN [ok |-> FALSE]
       ELSE IF \E i \in 1..Len(recent) :
                 "user" \notin DOMAIN recent[i]
                 \/ "activity" \notin DOMAIN recent[i]
            THEN [ok |-> FALSE]
       ELSE [ok |-> TRUE,
             total_activities |-> Len(recent),
             unique_users |-> Cardinality(Values(recent, "user")),
             activity_types |->
                 [v \in Values(recent, "activity") |-> Count(recent, "activity", v)],
             top_users |-> most_common(recent, "user", TopN),
             period_days |-> days]

\* ------------------------------------------------------------------ log
\* Mutant: the file is opened with "w", which truncates it.
append_text_truncating(content, line) == line

\* open(current_log_file, "a") ... f.write(line): the text goes to the end.
append_text(content, line) == content \o line

\* Mutant: the record and its "\n" go out in two write(2) calls.
write_calls_unbuffered(text) ==
    <<SubSeq(text, 1, Len(text) - 1), <<text[Len(text)]>>>>

\* The write(2) calls that carry one f.write(text) to the file: the text
\* stays in the file object's buffer until the file is closed and goes out
\* in one call.
write_calls(text) == <<text>>

RECURSIVE append_writes(_, _)
append_writes(content, calls) ==
    IF calls = <<>> THEN content
    ELSE append_writes(append_text(content, Head(calls)), Tail(calls))

\* Mutant: log() writes without looking at self.enabled.
log_files_ignoring_flag(en, fs, f, a) ==
    [fs EXCEPT ![f] = append_writes(@, write_calls(dumps_line(a)))]

\* The partitions after log(): untouched when the store is disabled.
log_files(en, fs, f, a) ==
    IF ~en THEN fs
    ELSE [fs EXCEPT ![f] = append_writes(@, write_calls(dumps_line(a)))]

\* Opening for append creates the file.
log_exists(en, ex, f) == IF ~en THEN ex ELSE ex \cup {f}

\* What log() returns: {} when disabled, else the activity.
log_return(en, a) == IF ~en THEN <<>> ELSE a

\* ------------------------------------------------------------ the inputs
Users == {"alice", "bob"}
ActivityNames == {"login", "custom_event"}
Sources == {"system"}
DetailsArgs == {NoneDict, {<<"pos", PyTuple(<<1, 2>>)>>}}

\* The calls of log: every user and activity without details, and one call
\* with a details dict.
LogCalls ==
    {[user |-> u, activity_type |-> ty, details |-> NoneDict, source |-> s] :
        u \in Users, ty \in ActivityNames, s \in Sources}
    \cup {[user |-> "alice", activity_type |-> "login", details |-> d,
            source |-> s] : d \in DetailsArgs, s \in Sources}

UserFilters == {NoneStr, "", "alice", "Alice"}
TypeFilters == {NoneStr, "", "login", "nosuch"}
TimeFilters == {PyNone, JStr(<<>>), JStr(Ts(0, 2)), JStr(Ts(1, 0))}
Limits == {0 - 1, 0, 1, 2, 100}
Offsets == {0 - 1, 0, 1, 2}
StatsDays == {0, 1, 7}

Query(u, ty, st, en, lim, off) ==
    [user |-> u, activity_type |-> ty, start_time |-> st, end_time |-> en,
     limit |-> lim, offset |-> off]

\* The queries issued: every pair of user and type filter, every time range
\* (alone and with a user filter), every page (alone and with a user filter).
Queries ==
    {Query(u, ty, PyNone, PyNone, 100, 0) : u \in UserFilters, ty \in TypeFilters}
    \cup {Query(u, NoneStr, st, en, 100, 0) :
             u \in {NoneStr, "alice"}, st \in TimeFilters, en \in TimeFilters}
    \cup {Query(u, NoneStr, PyNone, PyNone, lim, off) :
             u \in {NoneStr, "alice"}, lim \in Limits, off \in Offsets}

\* A record as an earlier run of the store wrote it.
Rec(day, frac, user, activity_type) ==
    [timestamp |-> JStr(Ts(day, frac)), user |-> user,
     activity |-> activity_type, description |-> description_of(activity_type),
     source |-> "system", details |-> {}]

NoFiles == [d \in Days |-> <<>>]

\* A partition written by more users than top_users lists: one record each
\* of ten users and two of an eleventh, whose records carry the smallest
\* timestamp, so that a newest-first reader meets that user last.
ManyUsers ==
    <<"u01", "u11", "u02", "u03", "u04", "u05", "u06", "u07", "u08", "u09",
      "u10", "u11">>

RECURSIVE RecordsOf(_, _)
RecordsOf(users, i) ==
    IF i > Len(users) THEN <<>>
    ELSE dumps_line(Rec(0, (i - 1) % TicksPerDay, users[i], "login"))
         \o RecordsOf(users, i + 1)

ManyUsersFile == RecordsOf(ManyUsers, 1)

\* The log directories the statistics are taken over: empty; three logins
\* of alice and one save of bob; the records of eleven users.
StatsDirs ==
    {[files |-> NoFiles, exists |-> {}],
     [files |-> [NoFiles EXCEPT ![0] =
                   dumps_line(Rec(0, 1, "alice", "login"))
                   \o dumps_line(Rec(0, 2, "bob", "save"))
                   \o dumps_line(Rec(0, 3, "alice", "login"))
                   \o dumps_line(Rec(0, 4, "alice", "login"))],
      exists |-> {0}],
     [files |-> [NoFiles EXCEPT ![0] = ManyUsersFile], exists |-> {0}]}

\* What the log directory may hold when the process starts.
\*  - nothing;
\*  - yesterday's partition with five records in write order, one of them
\*    with the description an older release gave its tag;
\*  - a partition with a line that is not JSON, blank lines and a record
\*    without a timestamp;
\*  - a partition with a JSON line that is not an object;
\*  - a partition with a record whose timestamp is a number.
PriorDirs ==
    {[files |-> NoFiles, exists |-> {}],
     [files |-> [NoFiles EXCEPT ![0] =
                   dumps_line(Rec(0, 0, "alice", "login"))
                   \o dumps_line([Rec(0, 1, "bob", "save") EXCEPT
                                     !.description = "Saved (older release)"])
                   \o dumps_line(Rec(0, 2, "alice", "custom_event"))
                   \o dumps_line(Rec(0, 3, "alice", "login"))
                   \o dumps_line(Rec(0, 4, "bob", "login"))],
      exists |-> {0}],
     [files |-> [NoFiles EXCEPT ![0] =
                   dumps_line(Rec(0, 1, "alice", "login"))
                   \o <<Garbage, NL, WS, NL, NL>>
                   \o dumps_line([user |-> "bob", activity |-> "login"])
                   \o dumps_line(Rec(0, 2, "bob", "login"))],
      exists |-> {0}],
     [files |-> [NoFiles EXCEPT ![0] =
                   dumps_line(Rec(0, 1, "alice", "login")) \o <<Scalar, NL>>],
      exists |-> {0}],
     [files |-> [NoFiles EXCEPT ![0] =
                   dumps_line(Rec(0, 1, "alice", "login"))
                   \o dumps_line([timestamp |-> JNum(5), user |-> "alice",
                                  activity |-> "login"])],
      exists |-> {0}]}

\* ------------------------------------------------------------- the state
\* No call is being answered.
Idle == [name |-> "idle"]

VARIABLES
    now,               \* the UTC clock, in ticks
    tz,                \* the host's UTC offset, in ticks
    enabled,           \* self.enabled
    current_log_file,  \* self.current_log_file: the date in its name
    files,             \* the text of each partition of log_dir
    exists,            \* the partitions that exist
    returned,          \* what each finished call of log returned, in order
    op,                \* the call being answered: its name, argument, outcome
    pc,                \* concurrent callers of log: where each one is
    act,               \* ... the activity it built
    calls,             \* ... the write(2) calls its file object still owes
    env,               \* os.environ: ACTIVITY_LOG_DIR, ACTIVITY_LOG_ENABLED
    instance,          \* get_logger._instance
    loggers            \* the ActivityLogger objects created, in order

vars == <<now, tz, enabled, current_log_file, files, exists, returned, op,
          pc, act, calls, env, instance, loggers>>

\* The state around the module-level singleton.
modulevars == <<env, instance, loggers>>

\* The environment the process starts in: the defaults.
DefaultEnv == [log_dir |-> "/data/.openclaw/activity", enabled |-> TRUE]

\* get_logger has no _instance attribute yet.
NoInstance == 0

\* No call of get_logger has been made.
InitModule ==
    /\ env = DefaultEnv
    /\ instance = NoInstance
    /\ loggers = <<>>

\* Threads that call log at the same time.
Procs == {1, 2}

procvars == <<pc, act, calls>>

InitProcs ==
    /\ pc = [p \in Procs |-> "idle"]
    /\ act = [p \in Procs |-> <<>>]
    /\ calls = [p \in Procs |-> <<>>]

\* ActivityLogger.__init__: the directory is made, the file name is fixed
\* from the local date, the flag is read from the environment.
Init ==
    /\ now = FirstDay * TicksPerDay
    /\ tz \in TzOffsets
    /\ enabled \in BOOLEAN
    /\ current_log_file = strftime_now(now, tz)
    /\ \E dir \in PriorDirs : files = dir.files /\ exists = dir.exists
    /\ returned = <<>>
    /\ op = Idle
    /\ InitProcs
    /\ InitModule

\* Time passes between two calls.
Tick ==
    /\ op = Idle
    /\ \E t \in Instants :
          /\ t > now
          /\ \A u \in Instants : u > now => t <= u
          /\ now' = t
    /\ UNCHANGED modulevars
    /\ UNCHANGED <<tz, enabled, current_log_file, files, exists, returned, op,
                 procvars>>

\* ActivityLogger.log(user, activity_type, details, source)
log(user, activity_type, details, source) ==
    LET a == activity_record(now, user, activity_type, details, source) IN
    /\ op = Idle
    /\ Len(returned) < MaxLogs
    /\ returned' = Append(returned, log_return(enabled, a))
    /\ files' = log_files(enabled, files, current_log_file, a)
    /\ exists' = log_exists(enabled, exists, current_log_file)
    /\ op' = [name |-> "log", ret |-> log_return(enabled, a)]
    /\ UNCHANGED modulevars
    /\ UNCHANGED <<now, tz, enabled, current_log_file, procvars>>

\* ActivityLogger.get_activities(...)
query(q) ==
    /\ op = Idle
    /\ op' = [name |-> "query", q |-> q, ret |-> get_activities(files, exists, q)]
    /\ UNCHANGED modulevars
    /\ UNCHANGED <<now, tz, enabled, current_log_file, files, exists, returned,
                 procvars>>

\* ActivityLogger.get_activity_stats(days)
stats(days) ==
    /\ op = Idle
    /\ op' = [name |-> "stats", days |-> days,
              ret |-> get_activity_stats(files, exists, now, tz, days)]
    /\ UNCHANGED modulevars
    /\ UNCHANGED <<now, tz, enabled, current_log_file, files, exists, returned,
                 procvars>>

\* The caller has its answer (the server handles one request at a time:
\* do_GET sends the response before the next request is read).
send_json_response ==
    /\ op # Idle
    /\ op' = Idle
    /\ UNCHANGED modulevars
    /\ UNCHANGED <<now, tz, enabled, current_log_file, files, exists, returned,
                 procvars>>

Next ==
    \/ Tick
    \/ send_json_response
    \/ \E c \in LogCalls : log(c.user, c.activity_type, c.details, c.source)
    \/ \E q \in Queries : query(q)
    \/ \E days \in StatsDays : stats(days)

Spec == Init /\ [][Next]_vars

\* ------------------------------------------------- the statistics endpoint
\* The same store, started over the directories of StatsDirs and asked for
\* statistics between calls of log.
InitStats ==
    /\ now = FirstDay * TicksPerDay
    /\ tz \in TzOffsets
    /\ enabled \in BOOLEAN
    /\ current_log_file = strftime_now(now, tz)
    /\ \E dir \in StatsDirs : files = dir.files /\ exists = dir.exists
    /\ returned = <<>>
    /\ op = Idle
    /\ InitProcs
    /\ InitModule

NextStats ==
    \/ Tick
    \/ send_json_response
    \/ \E c \in LogCalls : log(c.user, c.activity_type, c.details, c.source)
    \/ \E days \in StatsDays : stats(days)

SpecStats == InitStats /\ [][NextStats]_vars

\* ------------------------------------------- log, called from several threads
\* The same handler, one step per statement that another thread can see.
InitConc ==
    /\ now = FirstDay * TicksPerDay
    /\ tz \in TzOffsets
    /\ enabled \in BOOLEAN
    /\ current_log_file = strftime_now(now, tz)
    /\ files = NoFiles
    /\ exists = {}
    /\ returned = <<>>
    /\ op = Idle
    /\ InitProcs
    /\ InitModule

Started == Cardinality({p \in Procs : pc[p] # "idle"}) + Len(returned)

\* "if not self.enabled: return {}", else the activity is built.
log_begin(p, user, activity_type, details, source) ==
    /\ pc[p] = "idle"
    /\ Started < MaxLogs
    /\ IF ~enabled
       THEN /\ returned' = Append(returned, log_return(enabled, <<>>))
            /\ UNCHANGED <<pc, act>>
       ELSE /\ act' = [act EXCEPT ![p] =
                          activity_record(now, user, activity_type, details, source)]
            /\ pc' = [pc EXCEPT ![p] = "built"]
            /\ UNCHANGED returned
    /\ UNCHANGED modulevars
    /\ UNCHANGED <<now, tz, enabled, current_log_file, files, exists, op, calls>>

\* open(self.current_log_file, "a")
log_open(p) ==
    /\ pc[p] = "built"
    /\ exists' = log_exists(enabled, exists, current_log_file)
    /\ pc' = [pc EXCEPT ![p] = "open"]
    /\ UNCHANGED modulevars
    /\ UNCHANGED <<now, tz, enabled, current_log_file, files, returned, op,
                   act, calls>>

\* f.write(json.dumps(activity) + "\n"), and the end of the with block
\* starts to flush.
log_write(p) ==
    /\ pc[p] = "open"
    /\ calls' = [calls EXCEPT ![p] = write_calls(dumps_line(act[p]))]
    /\ pc' = [pc EXCEPT ![p] = "closing"]
    /\ UNCHANGED modulevars
    /\ UNCHANGED <<now, tz, enabled, current_log_file, files, exists, returned,
                   op, act>>

\* One write(2) on a descriptor opened with O_APPEND: its bytes go to the
\* end of the file in one piece.
log_flush(p) ==
    /\ pc[p] = "closing"
    /\ calls[p] # <<>>
    /\ files' = [files EXCEPT ![current_log_file] =
                    append_text(@, Head(calls[p]))]
    /\ calls' = [calls EXCEPT ![p] = Tail(@)]
    /\ UNCHANGED modulevars
    /\ UNCHANGED <<now, tz, enabled, current_log_file, exists, returned, op,
                   pc, act>>

\* The file is closed; "return activity".
log_end(p) ==
    /\ pc[p] = "closing"
    /\ calls[p] = <<>>
    /\ returned' = Append(returned, log_return(enabled, act[p]))
    /\ pc' = [pc EXCEPT ![p] = "idle"]
    /\ act' = [act EXCEPT ![p] = <<>>]
    /\ UNCHANGED modulevars
    /\ UNCHANGED <<now, tz, enabled, current_log_file, files, exists, op, calls>>

\* The queries a reader runs while log is being called.
ConcQueries ==
    {Query(NoneStr, NoneStr, PyNone, PyNone, 100, 0),
     Query("alice", NoneStr, PyNone, PyNone, 100, 0),
     Query(NoneStr, NoneStr, PyNone, PyNone, 1, 0)}

\* get_activities begins: the list of partitions is made.  "before" keeps
\* what the calls of log had returned by then.
get_activities_begin(q) ==
    /\ op = Idle
    /\ op' = [name |-> "scan", q |-> q, before |-> returned,
              todo |-> glob_sorted(exists), text |-> <<>>, lines |-> <<>>]
    /\ UNCHANGED modulevars
    /\ UNCHANGED <<now, tz, enabled, current_log_file, files, exists, returned,
                   procvars>>

\* "for line in f": a read returns the text between the reader's position
\* and the end of the file as it is now; a read that returns nothing ends
\* the loop over this file.
get_activities_read ==
    /\ op.name = "scan"
    /\ op.todo # <<>>
    /\ LET f == Head(op.todo) IN
       IF Len(files[f]) > Len(op.text)
       THEN op' = [op EXCEPT !.text = files[f]]
       ELSE op' = [op EXCEPT !.lines = @ \o Lines(op.text),
                             !.text = <<>>,
                             !.todo = Tail(@)]
    /\ UNCHANGED modulevars
    /\ UNCHANGED <<now, tz, enabled, current_log_file, files, exists, returned,
                   procvars>>

\* The last file is read: sort, slice, return.
get_activities_end ==
    /\ op.name = "scan"
    /\ op.todo = <<>>
    /\ op' = [name |-> "query", q |-> op.q, before |-> op.before,
              ret |-> activities_of(op.lines, op.q)]
    /\ UNCHANGED modulevars
    /\ UNCHANGED <<now, tz, enabled, current_log_file, files, exists, returned,
                   procvars>>

NextConc ==
    \/ Tick
    \/ \E q \in ConcQueries : get_activities_begin(q)
    \/ get_activities_read
    \/ get_activities_end
    \/ (op.name = "query" /\ send_json_response)
    \/ \E p \in Procs, c \in LogCalls :
          log_begin(p, c.user, c.activity_type, c.details, c.source)
    \/ \E p \in Procs : log_open(p)
    \/ \E p \in Procs : log_write(p)
    \/ \E p \in Procs : log_flush(p)
    \/ \E p \in Procs : log_end(p)

SpecConc == InitConc /\ [][NextConc]_vars

\* ------------------------------------------------ lib/upstream.py (strings)
\* A str is a sequence of one-character strings.
LowerOf ==
    [A |-> "a", B |-> "b", C |-> "c", D |-> "d", E |-> "e", F |-> "f",
     G |-> "g", H |-> "h", I |-> "i", J |-> "j", K |-> "k", L |-> "l",
     M |-> "m", N |-> "n", O |-> "o", P |-> "p", Q |-> "q", R |-> "r",
     S |-> "s", T |-> "t", U |-> "u", V |-> "v", W |-> "w", X |-> "x",
     Y |-> "y", Z |-> "z"]

Whitespace == {" ", "\t", "\n"}
Digits == {"0", "1", "2", "3", "4", "5", "6", "7", "8", "9"}

\* str.lower()
str_lower(s) ==
    [i \in 1..Len(s) |-> IF s[i] \in DOMAIN LowerOf THEN LowerOf[s[i]] ELSE s[i]]

RECURSIVE str_lstrip(_)
str_lstrip(s) ==
    IF s # <<>> /\ Head(s) \in Whitespace THEN str_lstrip(Tail(s)) ELSE s

RECURSIVE str_rstrip(_)
str_rstrip(s) ==
    IF s # <<>> /\ s[Len(s)] \in Whitespace
    THEN str_rstrip(SubSeq(s, 1, Len(s) - 1))
    ELSE s

\* str.strip()
str_strip(s) == str_rstrip(str_lstrip(s))

\* str.startswith(prefix)
startswith(s, prefix) ==
    Len(s) >= Len(prefix) /\ SubSeq(s, 1, Len(prefix)) = prefix

\* str.replace(".", "")
replace_dots(s) == SelectSeq(s, LAMBDA c : c # ".")

\* str.isdigit(): not empty and digits only.
isdigit(s) == s # <<>> /\ \A i \in 1..Len(s) : s[i] \in Digits

\* ----------------------------------------------------------- UpstreamType
OPENCLAW == <<"o", "p", "e", "n", "c", "l", "a", "w">>
PICOCLAW == <<"p", "i", "c", "o", "c", "l", "a", "w">>
IRONCLAW == <<"i", "r", "o", "n", "c", "l", "a", "w">>

\* The members of the enum, in definition order.
UpstreamType == <<OPENCLAW, PICOCLAW, IRONCLAW>>

\* A raised ValueError.
ValueError == [ok |-> FALSE, err |-> "ValueError"]

Return(v) == [ok |-> TRUE, val |-> v]

\* UpstreamType.from_string(value)
from_string(value) ==
    LET normalized == str_strip(str_lower(value)) IN
    IF \E i \in 1..Len(UpstreamType) : UpstreamType[i] = normalized
    THEN Return(normalized)
    ELSE ValueError

UpstreamConfig(name, owner, repo, cli, dir, mjs) ==
    [name |-> name, github_owner |-> owner, github_repo |-> repo,
     default_branch |-> "main", cli_name |-> cli, app_directory |-> dir,
     mjs_entrypoint |-> mjs]

UPSTREAMS ==
    [u \in {OPENCLAW, PICOCLAW, IRONCLAW} |->
        CASE u = OPENCLAW ->
               UpstreamConfig(OPENCLAW, "openclaw", "openclaw", "openclaw",
                              "/opt/openclaw/app", "openclaw.mjs")
          [] u = PICOCLAW ->
               UpstreamConfig(PICOCLAW, "sipeed", "picoclaw", "picoclaw",
                              "/opt/picoclaw/app", "picoclaw.mjs")
          [] u = IRONCLAW ->
               UpstreamConfig(IRONCLAW, "nearai", "ironclaw", "ironclaw",
                              "/opt/ironclaw/app", "ironclaw.mjs")]

\* get_upstream(upstream_type), called with a str.
get_upstream(upstream_type) ==
    LET t == from_string(upstream_type) IN
    IF ~t.ok THEN t
    ELSE IF t.val \notin DOMAIN UPSTREAMS THEN ValueError
    ELSE Return(UPSTREAMS[t.val])

\* None as the version argument.
NoVersion == <<"<None>">>

valid_prefixes ==
    <<<<"v">>, <<"m", "a", "i", "n">>, <<"l", "a", "t", "e", "s", "t">>,
      <<"o", "c", "_">>, <<"p", "c", "_">>, <<"i", "c", "_">>>>

\* validate_version_format(version)
validate_version_format(version) ==
    IF version = NoVersion \/ version = <<>> THEN FALSE
    ELSE \/ \E i \in 1..Len(valid_prefixes) : startswith(version, valid_prefixes[i])
         \/ isdigit(replace_dots(version))

\* ------------------------------------------- calls of the upstream module
\* Longest version string made of digits and dots that is tried.
MaxVersionLen == 3

UpperOf(c) == CHOOSE k \in DOMAIN LowerOf : LowerOf[k] = c

\* name with the letters at the positions of mask in upper case.
CaseVariant(name, mask) ==
    [i \in 1..Len(name) |-> IF i \in mask THEN UpperOf(name[i]) ELSE name[i]]

\* The name the unit tests use for the third upstream.
ZEROCLAW == <<"z", "e", "r", "o", "c", "l", "a", "w">>

UpperMasks == {{}, {1}, {1, 5}, {2, 4, 6, 8}, 1..8}
Pads == {<<>>, <<" ">>, <<"\t", " ">>}

\* The strings an upstream is looked up by.
UpstreamStrings ==
    {l \o CaseVariant(n, m) \o r :
        l \in Pads, r \in Pads, m \in UpperMasks,
        n \in {OPENCLAW, PICOCLAW, IRONCLAW, ZEROCLAW}}
    \cup {<<>>, <<" ">>, <<"i", "n", "v", "a", "l", "i", "d">>,
          <<"o", "p", "e", "n", " ", "c", "l", "a", "w">>,
          <<"o", "p", "e", "n", "c", "l", "a", "w", "s">>}

DigitDotStrings ==
    UNION {[1..n -> {"1", "2", "."}] : n \in 1..MaxVersionLen}

VersionSuffixes ==
    {<<>>, <<"1", ".", "0">>, <<"m", "a", "i", "n">>, <<"-", "r", "c">>}

\* The version strings that are validated.
VersionStrings ==
    {NoVersion, <<>>, <<"V", "1">>, <<"1", "a">>, <<"a", "b", "c">>,
     <<"m", "a", "i">>}
    \cup DigitDotStrings
    \cup {pre \o suf :
            pre \in {valid_prefixes[i] : i \in 1..Len(valid_prefixes)}
                    \cup {<<"z", "c", "_">>},
            suf \in VersionSuffixes}

\* The module is imported; no store is created.
InitUpstream ==
    /\ now = FirstDay * TicksPerDay
    /\ tz = 0
    /\ enabled = FALSE
    /\ current_log_file = strftime_now(now, tz)
    /\ files = NoFiles
    /\ exists = {}
    /\ returned = <<>>
    /\ op = Idle
    /\ InitProcs
    /\ InitModule

storevars ==
    <<now, tz, enabled, current_log_file, files, exists, returned, procvars>>

from_string_call(value) ==
    /\ op = Idle
    /\ op' = [name |-> "from_string", arg |-> value, ret |-> from_string(value)]
    /\ UNCHANGED modulevars
    /\ UNCHANGED storevars

get_upstream_call(value) ==
    /\ op = Idle
    /\ op' = [name |-> "get_upstream", arg |-> value, ret |-> get_upstream(value)]
    /\ UNCHANGED modulevars
    /\ UNCHANGED storevars

validate_version_format_call(version) ==
    /\ op = Idle
    /\ op' = [name |-> "validate_version_format", arg |-> version,
              ret |-> validate_version_format(version)]
    /\ UNCHANGED modulevars
    /\ UNCHANGED storevars

\* The caller has the value, or the ValueError.
upstream_return ==
    /\ op # Idle
    /\ op' = Idle
    /\ UNCHANGED modulevars
    /\ UNCHANGED storevars

NextUpstream ==
    \/ \E s \in UpstreamStrings : from_string_call(s)
    \/ \E s \in UpstreamStrings : get_upstream_call(s)
    \/ \E v \in VersionStrings : validate_version_format_call(v)
    \/ upstream_return

SpecUpstream == InitUpstream /\ [][NextUpstream]_vars

\* ------------------------------------------------------------- get_logger
\* Calls of get_logger in one run.
MaxGetLogger == 3

\* The values the environment variables take.
Envs ==
    {[log_dir |-> d, enabled |-> e] :
        d \in {"/data/.openclaw/activity", "/tmp/activity"}, e \in BOOLEAN}

\* The process starts; get_logger has not been called.
InitLogger ==
    /\ now = FirstDay * TicksPerDay
    /\ tz = 0
    /\ enabled = TRUE
    /\ current_log_file = strftime_now(now, tz)
    /\ files = NoFiles
    /\ exists = {}
    /\ returned = <<>>
    /\ op = Idle
    /\ InitProcs
    /\ env \in Envs
    /\ instance = NoInstance
    /\ loggers = <<>>

\* Some code of the process sets the environment variables.
setenv(e) ==
    /\ env # e
    /\ env' = e
    /\ UNCHANGED <<storevars, op, instance, loggers>>

GetLoggerCalls == Cardinality({p \in Procs : pc[p] # "idle"}) + Len(returned)

\* "if not hasattr(get_logger, '_instance')"
get_logger_check(p) ==
    /\ pc[p] = "idle"
    /\ GetLoggerCalls < MaxGetLogger
    /\ pc' = [pc EXCEPT ![p] = IF instance = NoInstance THEN "new" ELSE "have"]
    /\ UNCHANGED <<now, tz, enabled, current_log_file, files, exists, returned,
                   op, act, calls, modulevars>>

\* ActivityLogger(): log_dir and enabled are read from the environment as
\* it is now.  The object is known by its place in loggers.
ActivityLogger_init(p) ==
    /\ pc[p] = "new"
    /\ loggers' = Append(loggers, [log_dir |-> env.log_dir, enabled |-> env.enabled])
    /\ act' = [act EXCEPT ![p] = Len(loggers) + 1]
    /\ pc' = [pc EXCEPT ![p] = "built"]
    /\ UNCHANGED <<now, tz, enabled, current_log_file, files, exists, returned,
                   op, calls, env, instance>>

\* "get_logger._instance = ..."
get_logger_assign(p) ==
    /\ pc[p] = "built"
    /\ instance' = act[p]
    /\ act' = [act EXCEPT ![p] = <<>>]
    /\ pc' = [pc EXCEPT ![p] = "have"]
    /\ UNCHANGED <<now, tz, enabled, current_log_file, files, exists, returned,
                   op, calls, env, loggers>>

\* "return get_logger._instance"
get_logger_return(p) ==
    /\ pc[p] = "have"
    /\ returned' = Append(returned, instance)
    /\ pc' = [pc EXCEPT ![p] = "idle"]
    /\ UNCHANGED <<now, tz, enabled, current_log_file, files, exists, op, act,
                   calls, modulevars>>

NextLogger ==
    \/ \E e \in Envs : setenv(e)
    \/ \E p \in Procs : get_logger_check(p)
    \/ \E p \in Procs : ActivityLogger_init(p)
    \/ \E p \in Procs : get_logger_assign(p)
    \/ \E p \in Procs : get_logger_return(p)

SpecLogger == InitLogger /\ [][NextLogger]_vars

\* ================================================================ properties
EndsWith(text, tail) ==
    /\ Len(text) >= Len(tail)
    /\ SubSeq(text, Len(text) - Len(tail) + 1, Len(text)) = tail

IsPrefix(a, b) == Len(a) <= Len(b) /\ SubSeq(b, 1, Len(a)) = a

\* C1: every enabled log call appends its record to the partition named for
\* the UTC calendar day of that call, so a record in the partition of day D
\* is stamped with UTC date D.
C1_LogWritesTodaysPartition ==
    (op.name = "log" /\ op.ret # <<>>) =>
        /\ UtcDay(now) \in exists
        /\ EndsWith(files[UtcDay(now)], dumps_line(op.ret))

\* C2: the log is append-only.  Across every step each partition keeps its
\* earlier text as a prefix and grows by complete lines only; no partition
\* disappears; query and stats change no file; an enabled log call adds
\* exactly one line (its record) to exactly one partition.
C2_AppendOnly ==
    [][ /\ exists \subseteq exists'
        /\ \A d \in Days :
              /\ IsPrefix(files[d], files'[d])
              /\ files'[d] # files[d] => EndsWith(files'[d], <<NL>>)
        /\ op'.name \in {"query", "stats"} => files' = files /\ exists' = exists
        /\ (op'.name = "log" /\ enabled) =>
              \E d \in Days :
                  /\ files'[d] = files[d] \o dumps_line(op'.ret)
                  /\ Len(Lines(files'[d])) = Len(Lines(files[d])) + 1
                  /\ \A e \in Days \ {d} : files'[e] = files[e]
      ]_vars

\* C2 witness: an enabled log call has appended to a partition that already
\* held lines.
C2_Witness ==
    /\ op.name = "log"
    /\ op.ret # <<>>
    /\ Len(Lines(files[current_log_file])) >= 3

IsWholeRecordLine(line) == Len(line) = 1 /\ line[1].k = "obj"

CountLines(text, r) ==
    Cardinality({i \in 1..Len(Lines(text)) : Lines(text)[i] = <<Obj(dumps(r))>>})

CountReturned(r) ==
    Cardinality({i \in 1..Len(returned) : returned[i] = r})

\* C3: with log calls running concurrently on one partition, every line of
\* the file is one whole record (no line holds text of two records, no
\* record is split over lines), and once the calls have returned the file
\* holds each returned record as a line of its own, once per call.
C3_WholeLines ==
    /\ \A d \in Days : \A i \in 1..Len(Lines(files[d])) :
          IsWholeRecordLine(Lines(files[d])[i])
    /\ (\A p \in Procs : pc[p] = "idle") =>
          /\ \A d \in Days : files[d] # <<>> => EndsWith(files[d], <<NL>>)
          /\ \A i \in 1..Len(returned) :
                returned[i] # <<>> =>
                    CountLines(files[current_log_file], returned[i])
                        = CountReturned(returned[i])

\* C3 witness: two calls are writing different records to the same partition
\* at once; one's line is in the file, the other's write is still owed.
C3_Witness ==
    /\ pc[1] = "closing" /\ pc[2] = "closing"
    /\ calls[1] = <<>> /\ calls[2] # <<>>
    /\ act[1] # act[2]
    /\ files[current_log_file] # <<>>

\* The lines of all partitions that hold one JSON object.
ObjectLines ==
    {<<d, i>> \in Days \X (1..20) :
        /\ d \in exists
        /\ i <= Len(Lines(files[d]))
        /\ LET s == strip(Lines(files[d])[i]) IN s # <<>> /\ IsJson(s) /\ s[1].k = "obj"}

NoFilterQuery == Query(NoneStr, NoneStr, PyNone, PyNone, 100, 0)

\* C4: with the store disabled, log returns the empty structure, creates no
\* file and appends no line, so every query answers after the call as it
\* did before it; and a query still reads the partitions that exist.
C4_DisabledLogIsNoop ==
    /\ [][ (~enabled /\ op'.name = "log") =>
              /\ op'.ret = <<>>
              /\ files' = files
              /\ exists' = exists
              /\ \A q \in Queries :
                    get_activities(files', exists', q) = get_activities(files, exists, q)
          ]_vars
    /\ []((~enabled /\ op.name = "query" /\ op.q = NoFilterQuery /\ op.ret.ok) =>
              Len(op.ret.val) = Cardinality(ObjectLines))

\* C4 witness: the disabled store has answered a log call and then a query
\* that returns the records of the partitions found at start.
C4_Witness ==
    /\ ~enabled
    /\ Len(returned) >= 1
    /\ op.name = "query"
    /\ op.q = NoFilterQuery
    /\ op.ret.ok
    /\ Len(op.ret.val) >= 2

\* C5: whatever the partition files hold, query completes without raising.
C5_QueryNeverRaises ==
    op.name = "query" => op.ret.ok

\* C6: the sequence query returns is ordered by timestamp, newest first,
\* over the records of all partitions: of two adjacent records the first
\* one's timestamp is not smaller than the second one's, a record without a
\* timestamp counting as the empty string, so that it comes last.
C6_SortedNewestFirst ==
    (op.name = "query" /\ op.ret.ok) =>
        LET v == op.ret.val IN
        /\ \A i \in 1..(Len(v) - 1) :
              ~PyLess(timestamp_key(v[i]), timestamp_key(v[i + 1]))
        /\ \A i, j \in 1..Len(v) :
              (i < j /\ "timestamp" \notin DOMAIN v[i]) =>
                  timestamp_key(v[j]) = JStr(<<>>)

\* C6 witness: a query has merged the records of two partitions, one of them
\* holding a record without a timestamp, which comes last.
C6_Witness ==
    /\ op.name = "query"
    /\ op.ret.ok
    /\ Cardinality({d \in exists : files[d] # <<>>}) >= 2
    /\ Len(op.ret.val) >= 3
    /\ Len(op.ret.val) = Cardinality(ObjectLines)
    /\ "timestamp" \notin DOMAIN op.ret.val[Len(op.ret.val)]
    /\ "timestamp" \in DOMAIN op.ret.val[1]

\* The full filtered, newest-first sequence of a query's filters.
FullSequence(q) == sort_desc(collect(AllLines(files, exists), q, <<>>).val)

RECURSIVE PagesFrom(_, _, _)
\* The pages of size lim taken at offsets off, off + lim, ..., concatenated.
PagesFrom(q, lim, off) ==
    IF off >= Len(FullSequence(q)) THEN <<>>
    ELSE get_activities(files, exists, [q EXCEPT !.limit = lim, !.offset = off]).val
         \o PagesFrom(q, lim, off + lim)

\* C7: for limit >= 0 and offset >= 0 query returns exactly the records at
\* positions offset .. offset+limit-1 of the full filtered newest-first
\* sequence (fewer when it is shorter), and the consecutive pages taken at
\* offsets 0, limit, 2*limit, ... concatenate to the full sequence.
C7_Pagination ==
    (op.name = "query" /\ op.ret.ok /\ op.q.limit >= 0 /\ op.q.offset >= 0) =>
        LET full == FullSequence(op.q)
            v == op.ret.val
            n == IF Len(full) - op.q.offset < op.q.limit
                 THEN Len(full) - op.q.offset ELSE op.q.limit
        IN /\ Len(v) = (IF n < 0 THEN 0 ELSE n)
           /\ \A i \in 1..Len(v) : v[i] = full[op.q.offset + i]
           /\ (op.q.offset = 0 /\ op.q.limit > 0) =>
                 PagesFrom(op.q, op.q.limit, 0) = full

\* C7 witness: over five records T1 < ... < T5, query(limit=2, offset=1) has
\* returned [T4, T3].
C7_Witness ==
    /\ op.name = "query"
    /\ op.ret.ok
    /\ op.q = Query(NoneStr, NoneStr, PyNone, PyNone, 2, 1)
    /\ Len(FullSequence(op.q)) = 5
    /\ \A i \in 1..4 :
          StrLess(FullSequence(op.q)[i + 1].timestamp.s, FullSequence(op.q)[i].timestamp.s)
    /\ op.ret.val = <<FullSequence(op.q)[2], FullSequence(op.q)[3]>>

\* C8: query never returns more than limit records (none when limit is
\* negative), whatever integers limit and offset are, and a zero or negative
\* limit or a negative offset yields either the empty result or the full
\* result.
C8_AtMostLimit ==
    (op.name = "query" /\ op.ret.ok) =>
        /\ Len(op.ret.val) <= Max(op.q.limit, 0)
        /\ (op.q.limit <= 0 \/ op.q.offset < 0) =>
              op.ret.val \in {<<>>, FullSequence(op.q)}

\* The timestamp string of a record, the empty string when it has none.
TimestampString(a) == timestamp_key(a).s

\* C9: time-range filters are inclusive at both ends: with start_time = T
\* (a timestamp) query returns exactly the otherwise matching records whose
\* timestamp string is >= T, with end_time = T exactly those whose timestamp
\* string is <= T, with both those in between, ends included.
C9_InclusiveRange ==
    (op.name = "query" /\ op.ret.ok) =>
        LET q == op.q
            others == [q EXCEPT !.start_time = PyNone, !.end_time = PyNone]
            base == collect(AllLines(files, exists), others, <<>>).val
            InRange(a) ==
                /\ Truthy(q.start_time) =>
                      ~StrLess(TimestampString(a), q.start_time.s)
                /\ Truthy(q.end_time) =>
                      ~StrLess(q.end_time.s, TimestampString(a))
        IN op.ret.val = paginate(sort_desc(SelectSeq(base, InRange)), q)

\* C9 witness: a query with start_time = T has returned the record stamped
\* exactly T and left out an earlier one; none of the rest is after T's day.
C9_Witness ==
    /\ op.name = "query"
    /\ op.ret.ok
    /\ op.q = Query(NoneStr, NoneStr, JStr(Ts(0, 2)), JStr(Ts(1, 0)), 100, 0)
    /\ \E i \in 1..Len(op.ret.val) : op.ret.val[i].timestamp = JStr(Ts(0, 2))
    /\ \E i \in 1..Len(op.ret.val) : op.ret.val[i].timestamp = JStr(Ts(1, 0))
    /\ Len(op.ret.val) < Cardinality(ObjectLines)

\* C10: with a user and/or activity_type filter supplied, whatever string it
\* is (the empty string included), every returned record carries exactly
\* that user / activity, and a value no stored record carries yields the
\* empty result.
C10_ExactMatch ==
    (op.name = "query" /\ op.ret.ok) =>
        /\ op.q.user # NoneStr =>
              \A i \in 1..Len(op.ret.val) :
                  Get(op.ret.val[i], "user", NoneStr) = op.q.user
        /\ op.q.activity_type # NoneStr =>
              \A i \in 1..Len(op.ret.val) :
                  Get(op.ret.val[i], "activity", NoneStr) = op.q.activity_type

\* The instant a record returned by log was written at.
WrittenAt(r) == fromiso_timestamp(r.timestamp.s)

\* C11: of two records written by log at instants t1 < t2 the timestamp
\* string of the first is lexicographically smaller than that of the second,
\* also when one of the instants has a sub-second part of exactly zero.
C11_StringOrderIsTimeOrder ==
    \A i, j \in 1..Len(returned) :
        (returned[i] # <<>> /\ returned[j] # <<>>
         /\ WrittenAt(returned[i]) < WrittenAt(returned[j])) =>
            StrLess(returned[i].timestamp.s, returned[j].timestamp.s)

\* The positions of a query result that hold a record equal to r.
CountIn(v, r) == Cardinality({i \in 1..Len(v) : v[i] = r})

\* C12: after an enabled log call has returned record r, a query filtered on
\* r's user (no other filter, a limit that covers all matches) returns a
\* record equal to r in every field, once per log call that returned r.
C12_AppendThenRead ==
    (/\ op.name = "query"
     /\ op.q.user \in Users
     /\ op.q = Query(op.q.user, NoneStr, PyNone, PyNone, 100, 0)) =>
        \A i \in 1..Len(returned) :
            (returned[i] # <<>> /\ returned[i].user = op.q.user) =>
                /\ op.ret.ok
                /\ CountIn(op.ret.val, returned[i]) = CountReturned(returned[i])

\* The well-known tags.
KnownTags ==
    {"login", "logout", "config_change", "input_change", "save", "load",
     "error", "warning", "info"}

\* The record of a stored object line.
StoredRecord(l) == loads(strip(Lines(files[l[1]])[l[2]]))

\* C13: the description is fixed when the record is written: the canned
\* text of the table for the nine well-known tags (login -> "User logged
\* in"), the tag itself for any other; query returns each record with the
\* description that is stored, whatever the table says for its tag now.
C13_DescriptionFixedAtWrite ==
    /\ DOMAIN ACTIVITY_TYPES = KnownTags
    /\ (op.name = "log" /\ op.ret # <<>>) =>
          /\ op.ret.activity = "login" => op.ret.description = "User logged in"
          /\ op.ret.activity \in KnownTags => op.ret.description # op.ret.activity
          /\ op.ret.activity \notin KnownTags =>
                op.ret.description = op.ret.activity
          /\ \E l \in ObjectLines :
                /\ l[1] = current_log_file
                /\ l[2] = Len(Lines(files[current_log_file]))
                /\ StoredRecord(l).activity = op.ret.activity
                /\ StoredRecord(l).description = op.ret.description
    /\ (op.name = "query" /\ op.ret.ok) =>
          LET stored == {StoredRecord(l) : l \in ObjectLines} IN
          \A i \in 1..Len(op.ret.val) : op.ret.val[i] \in stored

\* C13 witness: a query has returned a record whose stored description is
\* not what the table gives for its tag, next to a record logged in this
\* run with a tag the table does not know.
C13_Witness ==
    /\ op.name = "query"
    /\ op.ret.ok
    /\ \E i \in 1..Len(op.ret.val) :
          /\ "description" \in DOMAIN op.ret.val[i]
          /\ op.ret.val[i].activity \in KnownTags
          /\ op.ret.val[i].description # description_of(op.ret.val[i].activity)
    /\ \E i \in 1..Len(op.ret.val), j \in 1..Len(returned) :
          /\ returned[j] # <<>>
          /\ op.ret.val[i] = returned[j]
          /\ returned[j].activity = "custom_event"
          /\ returned[j].description = "custom_event"

RECURSIVE SumOver(_, _)
SumOver(f, S) ==
    IF S = {} THEN 0
    ELSE LET x == CHOOSE y \in S : TRUE IN f[x] + SumOver(f, S \ {x})

\* C14: stats(days) aggregates over the records in the window among the
\* newest records fetched: the total is their number, unique_users the
\* number of distinct users, activity_types has one entry per activity seen
\* and its counts sum to the total, top_users has at most ten entries (all
\* users when there are no more than ten), each with that user's true
\* count, no user left out has a higher count than a user listed, and
\* period_days is the argument.
C14_StatsAggregate ==
    (op.name = "stats" /\ op.ret.ok) =>
        LET r == op.ret
            top == DOMAIN r.top_users
            fetched == get_activities(files, exists, stats_query).val
            cutoff == utcnow_timestamp(now, tz) - op.days * TicksPerDay
            win == SelectSeq(fetched, LAMBDA a : WrittenAt(a) > cutoff)
            users == {win[i].user : i \in 1..Len(win)}
            n(key, v) == Cardinality({i \in 1..Len(win) : win[i][key] = v})
        IN /\ r.total_activities = Len(win)
           /\ r.unique_users = Cardinality(users)
           /\ DOMAIN r.activity_types = {win[i].activity : i \in 1..Len(win)}
           /\ \A v \in DOMAIN r.activity_types :
                 r.activity_types[v] = n("activity", v)
           /\ SumOver(r.activity_types, DOMAIN r.activity_types) = r.total_activities
           /\ top \subseteq users
           /\ Cardinality(top) = Min(10, Cardinality(users))
           /\ \A u \in top : r.top_users[u] = n("user", u)
           /\ \A u \in users \ top : \A v \in top : n("user", u) <= n("user", v)
           /\ r.period_days = op.days

\* C14 witness: statistics over the records of twelve users: top_users
\* lists ten of them, among them the user with the oldest records, who has
\* two, and a user who logged in this run.
C14_Witness ==
    /\ op.name = "stats"
    /\ op.ret.ok
    /\ op.ret.unique_users = 12
    /\ op.ret.total_activities = 13
    /\ Cardinality(DOMAIN op.ret.top_users) = 10
    /\ "u11" \in DOMAIN op.ret.top_users
    /\ op.ret.top_users["u11"] = 2
    /\ \E i \in 1..Len(returned) :
          returned[i] # <<>> /\ returned[i].user \in DOMAIN op.ret.top_users

\* C15: stats(days) counts a fetched record exactly when its timestamp, read
\* as a UTC instant, is later than the current UTC instant minus days whole
\* days, in every host time zone.
C15_WindowFromUtcNow ==
    (op.name = "stats" /\ op.ret.ok) =>
        LET fetched == get_activities(files, exists, stats_query).val
            cutoff == now - op.days * TicksPerDay
        IN op.ret.total_activities =
              Len(SelectSeq(fetched, LAMBDA a : WrittenAt(a) > cutoff))

\* C16: when a stored record has no timestamp, or one that does not parse
\* as ISO-8601, the stats call fails as a whole and hands back no
\* statistics, while a query over the same files completes.
C16_StatsAllOrNothing ==
    (/\ op.name = "stats"
     /\ \E l \in ObjectLines : stats_ts_raises(StoredRecord(l))) =>
        /\ ~op.ret.ok
        /\ DOMAIN op.ret = {"ok"}
        /\ get_activities(files, exists, NoFilterQuery).ok

\* The names of the three upstreams.
UpstreamNames == {OPENCLAW, PICOCLAW, ZEROCLAW}

\* s is name in some letter case, with or without whitespace around it.
IsVariantOf(s, name) ==
    \E i \in 1..(Len(s) + 1) :
        /\ \A k \in 1..(i - 1) : s[k] \in Whitespace
        /\ i + Len(name) - 1 <= Len(s)
        /\ \A k \in 1..Len(name) : s[i + k - 1] \in {name[k], UpperOf(name[k])}
        /\ \A k \in (i + Len(name))..Len(s) : s[k] \in Whitespace

\* C17: for every letter-case variant of "openclaw", "picoclaw" or
\* "zeroclaw", with or without whitespace around it, from_string and
\* get_upstream resolve to that upstream, get_upstream returning the
\* registered config of that name; every other string raises ValueError.
C17_UpstreamLookup ==
    (op.name \in {"from_string", "get_upstream"}) =>
        /\ \A name \in UpstreamNames :
              IsVariantOf(op.arg, name) =>
                  /\ op.ret.ok
                  /\ op.name = "from_string" => op.ret.val = name
                  /\ op.name = "get_upstream" => op.ret.val.name = name
        /\ (\A name \in UpstreamNames : ~IsVariantOf(op.arg, name)) =>
              op.ret = ValueError

\* The prefixes of a valid version.
VersionPrefixes ==
    {<<"v">>, <<"m", "a", "i", "n">>, <<"l", "a", "t", "e", "s", "t">>,
     <<"o", "c", "_">>, <<"p", "c", "_">>, <<"z", "c", "_">>}

\* C18: validate_version_format is True for every version that starts with
\* "v", "main", "latest", "oc_", "pc_" or "zc_" and for every string of
\* digits and dots with at least one digit, False for "" and for None.
C18_VersionFormat ==
    (op.name = "validate_version_format") =>
        /\ (\E pre \in VersionPrefixes : IsPrefix(pre, op.arg)) => op.ret = TRUE
        /\ (/\ \A i \in 1..Len(op.arg) : op.arg[i] \in Digits \cup {"."}
            /\ \E i \in 1..Len(op.arg) : op.arg[i] \in Digits) => op.ret = TRUE
        /\ op.arg \in {<<>>, NoVersion} => op.ret = FALSE

\* The calls of log whose line is in the file in full: those that have
\* returned, and those whose write has gone out.
WroteInFull(x) ==
    Cardinality({i \in 1..Len(returned) :
                    returned[i] # <<>> /\ dumps(returned[i]) = x})
    + Cardinality({p \in Procs :
                    pc[p] = "closing" /\ calls[p] = <<>> /\ dumps(act[p]) = x})

\* The calls of log that had returned record r when the scan began.
ReturnedBefore(r) ==
    Cardinality({j \in 1..Len(op.before) : op.before[j] = r})

\* C19: a query that begins after an enabled log call has returned returns
\* that call's record when its filters and limit admit it; a query running
\* while log is being called completes without raising and returns only
\* records that calls of log wrote in full, none more often than it was
\* written.
C19_ReadWriteVisibility ==
    (op.name = "query") =>
        /\ op.ret.ok
        /\ \A i \in 1..Len(op.ret.val) :
              /\ WroteInFull(op.ret.val[i]) >= 1
              /\ CountIn(op.ret.val, op.ret.val[i]) <= WroteInFull(op.ret.val[i])
        /\ \A j \in 1..Len(op.before) :
              (/\ op.before[j] # <<>>
               /\ op.q.user \in {NoneStr, op.before[j].user}) =>
                  IF op.q.limit = 1 THEN Len(op.ret.val) = 1
                  ELSE CountIn(op.ret.val, dumps(op.before[j]))
                           >= ReturnedBefore(op.before[j])

\* C19 witness: a query that began after one call of log had returned and
\* ran while a second call was writing has returned the first record and
\* the second, whose call has still not returned.
C19_Witness ==
    /\ op.name = "query"
    /\ op.ret.ok
    /\ op.q.limit = 100
    /\ \E j \in 1..Len(op.before) :
          op.before[j] # <<>> /\ CountIn(op.ret.val, dumps(op.before[j])) >= 1
    /\ \E p \in Procs :
          /\ pc[p] = "closing"
          /\ calls[p] = <<>>
          /\ CountIn(op.ret.val, dumps(act[p])) >= 1
          /\ \A j \in 1..Len(op.before) : op.before[j] # act[p]

\* C20: at most one store object is ever created, every call of get_logger
\* returns that same object, also when first calls overlap, and the
\* object's log directory and enabled flag stay as they were at creation
\* whatever the environment is changed to.
C20_SingleInstance ==
    /\ Len(loggers) <= 1
    /\ \A i, j \in 1..Len(returned) : returned[i] = returned[j]
    /\ \A i, j \in 1..Len(returned) :
          loggers[returned[i]] = loggers[returned[j]]
====
